---- MODULE Spec2Model ----
(***************************************************************************)
(* A model of BVHImporter.py: the ImportBVH session (constructor, getData,  *)
(* readFile, _clear_animation), the TinyDAG path chain, and the part of the *)
(* Maya scene the importer drives through maya.cmds.                         *)
(*                                                                           *)
(* A line of the file is the sequence of its whitespace-separated tokens;    *)
(* the substring tests of readFile ('JOINT' in line, ...) are tests on the   *)
(* tokens.  A TinyDAG is the sequence of str(obj) from its ultimate ancestor *)
(* down to itself, and None is the empty sequence.  A scene node is its DAG  *)
(* path, the sequence of node names from the world down to the node.         *)
(***************************************************************************)
EXTENDS Integers, Sequences, FiniteSets, TLC

VARIABLES
    pc,                    \* "new", "loop" (inside readFile's for), "idle", "failed", "dead"
    err,                   \* the exception the last call raised, "" when none
    calls,                 \* calls made on the session: the constructor, getData, readFile
    pass,                  \* readFile invocations so far
    inInit,                \* the running readFile was entered from __init__
    file_path,             \* self.file_path
    data,                  \* self.data
    _channels,             \* self._channels
    _root_node,            \* self._root_node
    _root_node_full_path,  \* self._root_node_full_path
    safe_close, motion, frame, rot_order, my_parent, jnt,   \* readFile's locals
    idx,                   \* position of the for loop: the next line of self.data
    nodes, sel, val, rotateOrder, keys,                     \* the Maya scene
    log,                   \* the maya.cmds calls that took effect, in order
    call,                  \* history: the last call, its path argument, and the length of
                           \* the log and the number of passes when it was made
    hist                   \* history: per readFile invocation, the lines it parsed, whether
                           \* it started without a root, the line that set motion (0 when
                           \* none has), whether it completed, and the scene's nodes and
                           \* keyframes when it did

vars == <<pc, err, calls, pass, inInit, file_path, data, _channels, _root_node,
          _root_node_full_path, safe_close, motion, frame, rot_order, my_parent,
          jnt, idx, nodes, sel, val, rotateOrder, keys, log, call, hist>>

\* ------------------------------------------------------------------ bounds
MaxCalls == 3
MaxFrames == 2
MaxExtra == 1

\* ------------------------------------------------------------------ tokens
Digits == <<"0", "1", "2", "3", "4", "5", "6", "7", "8", "9">>

IsNumber(tok) == \E i \in 1..Len(Digits) : Digits[i] = tok

\* float(tok) and int(tok) of a token that IsNumber
NumberOf(tok) == (CHOOSE i \in 1..Len(Digits) : Digits[i] = tok) - 1

NumTok(n) == Digits[(n % 10) + 1]

rotation_orders == <<"XYZ", "YZX", "ZXY", "XZY", "YXZ", "ZYX">>

PositionTokens == {"Xposition", "Yposition", "Zposition"}
RotationTokens == {"Xrotation", "Yrotation", "Zrotation"}

translationDict ==
    [t \in PositionTokens \cup RotationTokens |->
        CASE t = "Xposition" -> "translateX"
          [] t = "Yposition" -> "translateY"
          [] t = "Zposition" -> "translateZ"
          [] t = "Xrotation" -> "rotateX"
          [] t = "Yrotation" -> "rotateY"
          [] t = "Zrotation" -> "rotateZ"]

trans_attrs == <<"translateX", "translateY", "translateZ">>
rot_attrs == <<"rotateX", "rotateY", "rotateZ">>
Attrs == {trans_attrs[i] : i \in 1..3} \cup {rot_attrs[i] : i \in 1..3}

\* i.replace('rotation', '')
StripRotation(tok) ==
    CASE tok = "Xrotation" -> "X"
      [] tok = "Yrotation" -> "Y"
      [] tok = "Zrotation" -> "Z"
      [] OTHER -> tok

\* kw in tok, for the keywords readFile looks for
HasSub(tok, kw) == tok = kw \/ (kw = "Frame" /\ tok = "Frames:")

\* kw in line
Contains(line, kw) == \E i \in 1..Len(line) : HasSub(line[i], kw)

\* 'End Site' in line
ContainsEndSite(line) ==
    \E i \in 1..(Len(line) - 1) : line[i] = "End" /\ line[i + 1] = "Site"

\* line.startswith(kw)
StartsWith(line, kw) == Len(line) >= 1 /\ line[1] = kw

\* space_re.split(line.strip()): a blank line gives one empty token
Split(line) == IF line = <<>> THEN <<"">> ELSE line

RECURSIVE JoinWith(_, _)
JoinWith(seq, sep) ==
    IF seq = <<>> THEN ""
    ELSE IF Len(seq) = 1 THEN seq[1]
    ELSE JoinWith(SubSeq(seq, 1, Len(seq) - 1), sep) \o sep \o seq[Len(seq)]

\* line[5:].rstrip() of a line that starts with ROOT
RootName(line) == JoinWith(Tail(line), " ")

\* ------------------------------------------------------------------ TinyDAG
None == <<>>

TinyDAG(obj, parent) == Append(parent, obj)

Parent(node) == SubSeq(node, 1, Len(node) - 1)

Str(node) == IF node = None THEN "None" ELSE node[Len(node)]

\* full_path with the two operands of line 41 exchanged
RECURSIVE full_path_ChildFirst(_)
full_path_ChildFirst(node) ==
    IF Parent(node) # None
    THEN Str(node) \o "|" \o full_path_ChildFirst(Parent(node))
    ELSE Str(node)

RECURSIVE full_path(_)
full_path(node) ==
    IF Parent(node) # None
    THEN full_path(Parent(node)) \o "|" \o Str(node)
    ELSE Str(node)

\* ------------------------------------------------------------------ files
\* The files on disk: BVH texts built from a few block shapes, and malformed
\* variants of them.  A line is its token sequence.
RotOrders ==
    << <<"Xrotation", "Yrotation", "Zrotation">>,
       <<"Xrotation", "Zrotation", "Yrotation">>,
       <<"Yrotation", "Xrotation", "Zrotation">>,
       <<"Yrotation", "Zrotation", "Xrotation">>,
       <<"Zrotation", "Xrotation", "Yrotation">>,
       <<"Zrotation", "Yrotation", "Xrotation">> >>

PosOrder == <<"Xposition", "Yposition", "Zposition">>

RotOf(p) == RotOrders[((p - 1) % 6) + 1]

ChannelsLine(toks) == <<"CHANNELS", NumTok(Len(toks))>> \o toks

OffsetLine(x, y, z) == <<"OFFSET", NumTok(x), NumTok(y), NumTok(z)>>

EndSiteBlock(z) == << <<"End", "Site">>, <<"{">>, OffsetLine(0, 0, z), <<"}">> >>

\* a ROOT or JOINT block; chanFirst puts the CHANNELS line before the OFFSET line
Block(kw, name, off, chans, chanFirst, inner) ==
    << <<kw, name>>, <<"{">> >>
    \o (IF chanFirst THEN <<chans, off>> ELSE <<off, chans>>)
    \o inner \o << <<"}">> >>

\* the data line of frame f with n columns
DataLine(f, n) == [i \in 1..n |-> NumTok(f + i)]

\* the MOTION section: nf frames of n columns; frame 1 has n + delta columns
MotionLines(nf, n, delta) ==
    << <<"MOTION">>, <<"Frames:", NumTok(nf)>>, <<"Frame", "Time:", "0.033333">> >>
    \o [f \in 1..nf |-> DataLine(f - 1, IF f = 2 THEN n + delta ELSE n)]

\* shape 1: ROOT with an End Site; 2: ROOT > JOINT A > End Site;
\* 3: ROOT > (JOINT A > JOINT B > End Site), (JOINT C > End Site)
Hierarchy(shape, p, aChans, rootFirst, jointFirst) ==
    LET c == Block("JOINT", "C", OffsetLine(3, 4, 5), ChannelsLine(RotOf(p + 3)),
                   FALSE, EndSiteBlock(7))
        b == Block("JOINT", "B", OffsetLine(2, 3, 4), ChannelsLine(RotOf(p + 2)),
                   FALSE, EndSiteBlock(6))
        a == Block("JOINT", "A", OffsetLine(1, 2, 3), ChannelsLine(aChans),
                   jointFirst, IF shape = 3 THEN b ELSE EndSiteBlock(5))
        inner == CASE shape = 1 -> EndSiteBlock(5)
                   [] shape = 2 -> a
                   [] OTHER -> a \o c
    IN  Block("ROOT", "Hip", OffsetLine(1, 0, 0), ChannelsLine(PosOrder \o RotOf(p)),
              rootFirst, inner)

Columns(shape, aChans) ==
    CASE shape = 1 -> 6
      [] shape = 2 -> 6 + Len(aChans)
      [] OTHER -> 6 + Len(aChans) + 6

BVH(shape, p, aChans, rootFirst, jointFirst, nf, delta) ==
    << <<"HIERARCHY">> >>
    \o Hierarchy(shape, p, aChans, rootFirst, jointFirst)
    \o MotionLines(nf, Columns(shape, aChans), delta)

\* ROOT Hip with an End Site whose last line is endLine, and a closing brace
\* that shares its line with MOTION: the ROOT's brace when the End Site is
\* closed by endLine, else the End Site's
SharedLines(endLine, closed) ==
    << <<"HIERARCHY">>, <<"ROOT", "Hip">>, <<"{">>, OffsetLine(1, 0, 0),
       ChannelsLine(PosOrder \o RotOf(1)), <<"End", "Site">>, <<"{">>, endLine,
       <<"}", "MOTION">> >>
    \o Tail(MotionLines(MaxFrames, 6, 0))

ValidBVH(shape, p) == BVH(shape, p, RotOf(p + 1), FALSE, FALSE, MaxFrames, 0)

ValidPath(shape, p) == "v" \o NumTok(shape) \o NumTok(p)

\* every rotation order on the ROOT (shape 1) and on a JOINT (shape 2)
ValidPaths == {ValidPath(shape, p) : shape \in 1..2, p \in 1..6} \cup {ValidPath(3, 1)}

ExtraPath(e) == "extra" \o NumTok(e)

OtherFiles ==
    [p \in {"empty", "blank1", "nothier", "fewer", "posonly", "badperm",
            "chanfirstroot", "chanfirstjoint", "noroot", "noframes", "late",
            "endoffset", "endmotion", "unbalanced"} |->
        CASE p = "empty" -> <<>>
          [] p = "blank1" -> << <<>> >> \o ValidBVH(2, 1)
          [] p = "nothier" -> Tail(ValidBVH(2, 1))
          [] p = "fewer" -> BVH(2, 1, RotOf(2), FALSE, FALSE, MaxFrames, 0 - 1)
          [] p = "posonly" -> BVH(2, 1, PosOrder, FALSE, FALSE, MaxFrames, 0)
          [] p = "badperm" ->
                BVH(2, 1, <<"Xrotation", "Xrotation", "Yrotation">>, FALSE, FALSE, MaxFrames, 0)
          [] p = "chanfirstroot" -> BVH(2, 1, RotOf(2), TRUE, FALSE, MaxFrames, 0)
          [] p = "chanfirstjoint" -> BVH(2, 1, RotOf(2), FALSE, TRUE, MaxFrames, 0)
          [] p = "noroot" -> << <<"HIERARCHY">> >> \o MotionLines(0, 0, 0)
          [] p = "noframes" -> BVH(1, 5, RotOf(1), FALSE, FALSE, 0, 0)
          [] p = "late" -> ValidBVH(1, 1) \o << <<"JOINT", "Z">>, <<"}">> >>
          [] p = "endoffset" -> SharedLines(<<"OFFSET", "0", "0", "5", "}">>, TRUE)
          [] p = "endmotion" -> SharedLines(<<"OFFSET", "0", "0", "5">>, FALSE)
          [] p = "unbalanced" ->
                << <<"HIERARCHY">> >>
                \o Hierarchy(1, 1, RotOf(2), FALSE, FALSE)
                \o << <<"}">>, <<"}">> >>
                \o MotionLines(MaxFrames, 6, 0)]

\* the content of every path that exists on disk
Disk ==
    [p \in ValidPaths |->
        LET sp == CHOOSE sp \in (1..3) \X (1..6) : ValidPath(sp[1], sp[2]) = p
        IN  ValidBVH(sp[1], sp[2])]
    @@ [p \in {ExtraPath(e) : e \in 1..MaxExtra} |->
        LET e == CHOOSE e \in 1..MaxExtra : ExtraPath(e) = p
        IN  BVH(2, 1, RotOf(2), FALSE, FALSE, MaxFrames, e)]
    @@ OtherFiles

\* the paths a session is constructed with, and those getData is called with later
Paths == DOMAIN Disk \cup {"missing"}
ReloadPaths == {ValidPath(3, 1), ExtraPath(1), "blank1"}

\* ------------------------------------------------------------------ scene
\* maya.cmds, as far as the importer uses it.  A name or partial path denotes
\* the nodes whose DAG path ends with it.
Suffixes(n) == {SubSeq(n, k, Len(n)) : k \in 1..Len(n)}

Resolve(ns, name) == {n \in ns : \E suf \in Suffixes(n) : JoinWith(suf, "|") = name}

\* the (node, attribute) pairs an attribute path 'name.attr' denotes
NamesOf(n) == {JoinWith(suf, "|") : suf \in Suffixes(n)}

ResolveAttr(ns, path) ==
    UNION {LET names == NamesOf(n)
           IN  {<<n, a>> : a \in {a \in Attrs : \E nm \in names : nm \o "." \o a = path}}
           : n \in ns}

\* mc.objExists(name)
objExists(ns, name) == Resolve(ns, name) # {}

Siblings(ns, parent) == {Str(n) : n \in {m \in ns : Parent(m) = parent}}

\* the name a new child gets: Maya numbers a name its siblings already use
NewName(ns, parent, name) ==
    IF name \notin Siblings(ns, parent) THEN name
    ELSE name \o Digits[1 + CHOOSE k \in 1..9 :
            /\ (name \o Digits[1 + k]) \notin Siblings(ns, parent)
            /\ \A j \in 1..(k - 1) : (name \o Digits[1 + j]) \in Siblings(ns, parent)]

\* the name Maya returns for a node: its shortest partial path that is unique
ShortName(ns, node) ==
    LET uniq == {k \in 1..Len(node) :
                    Resolve(ns, JoinWith(SubSeq(node, Len(node) - k + 1, Len(node)), "|"))
                        = {node}}
        k == IF uniq = {} THEN Len(node)
             ELSE CHOOSE k \in uniq : \A j \in uniq : k <= j
    IN  JoinWith(SubSeq(node, Len(node) - k + 1, Len(node)), "|")

Descendants(ns, roots) ==
    {n \in ns : \E r \in roots : Len(r) <= Len(n) /\ SubSeq(n, 1, Len(r)) = r}

ZeroAttrs == [a \in Attrs |-> 0]

\* The state one readFile step works on: the session's fields, readFile's
\* locals, the scene, and the exception raised so far ("" when none).
Fail(s, e) == [s EXCEPT !.err = e]

Emit(s, op, node, attr, time, value) ==
    [s EXCEPT !.log = Append(@, [op |-> op, node |-> node, attr |-> attr,
                                 time |-> time, value |-> value,
                                 ln |-> s.ln, pass |-> s.pass])]

\* mc.group(em=True, name=name): a new empty group under the world, selected
McGroup(s, name) ==
    LET node == <<NewName(s.nodes, None, name)>>
        t == [s EXCEPT !.nodes = @ \cup {node},
                       !.sel = {node},
                       !.val = (node :> ZeroAttrs) @@ @,
                       !.rotateOrder = (node :> 0) @@ @]
    IN  Emit(t, "group", node, "", 0, <<>>)

\* mc.setAttr(f'{name}.scale', scale, scale, scale)
McSetScale(s, name) ==
    LET r == Resolve(s.nodes, name)
    IN  IF Cardinality(r) # 1 THEN Fail(s, "MayaError")
        ELSE Emit(s, "scale", CHOOSE n \in r : TRUE, "scale", 0, <<>>)

\* mc.joint(name=name, p=(0, 0, 0)): a new joint under the selected node; with
\* several nodes selected the parent is one of them (pick)
JointParent(s) ==
    IF s.sel = {} THEN None
    ELSE IF Cardinality(s.sel) = 1 THEN CHOOSE n \in s.sel : TRUE
    ELSE s.pick

NewJoint(s, name) == Append(JointParent(s), NewName(s.nodes, JointParent(s), name))

McJoint(s, name) ==
    LET node == NewJoint(s, name)
        t == [s EXCEPT !.nodes = @ \cup {node},
                       !.sel = {node},
                       !.val = (node :> ZeroAttrs) @@ @,
                       !.rotateOrder = (node :> 0) @@ @]
    IN  Emit(t, "joint", node, "", 0, <<>>)

\* mc.setAttr(f'{name}.translate', x, y, z, typ='double3')
McSetTranslate(s, name, xyz) ==
    LET r == Resolve(s.nodes, name)
        n == CHOOSE n \in r : TRUE
    IN  IF Cardinality(r) # 1 \/ Len(xyz) # 3 THEN Fail(s, "MayaError")
        ELSE Emit([s EXCEPT !.val[n] = [a \in Attrs |->
                                 IF \E i \in 1..3 : trans_attrs[i] = a
                                 THEN xyz[CHOOSE i \in 1..3 : trans_attrs[i] = a]
                                 ELSE @[a]]],
                  "translate", n, "translate", 0, xyz)

\* mc.setAttr(f'{name}.rotateOrder', code)
McSetRotateOrder(s, name, code) ==
    LET r == Resolve(s.nodes, name)
        n == CHOOSE n \in r : TRUE
    IN  IF Cardinality(r) # 1 THEN Fail(s, "MayaError")
        ELSE Emit([s EXCEPT !.rotateOrder[n] = code],
                  "rotateOrder", n, "rotateOrder", 0, <<code>>)

\* mc.select(name)
McSelect(s, name) ==
    LET r == Resolve(s.nodes, name)
    IN  IF r = {} THEN Fail(s, "MayaError")
        ELSE Emit([s EXCEPT !.sel = r], "select", CHOOSE n \in r : TRUE, "", 0, <<>>)

\* mc.setKeyframe(path, time=time, value=value)
McSetKeyframe(s, path, time, value) ==
    LET r == ResolveAttr(s.nodes, path)
        na == CHOOSE na \in r : TRUE
        old == {k \in s.keys : k.node = na[1] /\ k.attr = na[2] /\ k.time = time}
    IN  IF Cardinality(r) # 1 THEN Fail(s, "MayaError")
        ELSE Emit([s EXCEPT !.keys = (@ \ old) \cup
                                {[node |-> na[1], attr |-> na[2], time |-> time,
                                  value |-> value]},
                            !.val[na[1]][na[2]] = value],
                  "keyframe", na[1], na[2], time, <<value>>)

\* _clear_animation with the reset of lines 209-211 made on all six attributes
_clear_animation_ResetsAll(s) ==
    LET r == Resolve(s.nodes, Str(s.root))
        hi == Descendants(s.nodes, r)
    IN  IF s.root = None THEN Fail(s, "Exception")
        ELSE IF r = {} THEN Fail(s, "MayaError")
        ELSE Emit([s EXCEPT !.sel = hi,
                            !.keys = {k \in @ : ~(k.node \in hi /\ k.attr \in Attrs)},
                            !.val = [n \in DOMAIN @ |->
                                        IF n \in hi THEN ZeroAttrs ELSE @[n]]],
                  "clear", CHOOSE n \in r : TRUE, "", 0, <<>>)

\* _clear_animation without the deletion of lines 203-207
_clear_animation_KeepsCurves(s) ==
    LET r == Resolve(s.nodes, Str(s.root))
        hi == Descendants(s.nodes, r)
    IN  IF s.root = None THEN Fail(s, "Exception")
        ELSE IF r = {} THEN Fail(s, "MayaError")
        ELSE Emit([s EXCEPT !.sel = hi,
                            !.val = [n \in DOMAIN @ |->
                                        IF n \in hi
                                        THEN [a \in Attrs |->
                                                IF \E i \in 1..3 : rot_attrs[i] = a
                                                THEN 0 ELSE @[n][a]]
                                        ELSE @[n]]],
                  "clear", CHOOSE n \in r : TRUE, "", 0, <<>>)

\* ------------------------------------------------------------------ _clear_animation
_clear_animation(s) ==
    LET r == Resolve(s.nodes, Str(s.root))
        hi == Descendants(s.nodes, r)
    IN  IF s.root = None THEN Fail(s, "Exception")
        ELSE IF r = {} THEN Fail(s, "MayaError")
        ELSE Emit([s EXCEPT !.sel = hi,
                            !.keys = {k \in @ : ~(k.node \in hi /\ k.attr \in Attrs)},
                            !.val = [n \in DOMAIN @ |->
                                        IF n \in hi
                                        THEN [a \in Attrs |->
                                                IF \E i \in 1..3 : rot_attrs[i] = a
                                                THEN 0 ELSE @[n][a]]
                                        ELSE @[n]]],
                  "clear", CHOOSE n \in r : TRUE, "", 0, <<>>)

\* ------------------------------------------------------------------ readFile, one line
\* Each check of the loop body is a step on the state s; a step does nothing
\* once an exception is raised or the line was left by continue.
Live(s) == s.err = "" /\ ~s.skip

\* lines 111-119
RootCheck(s, line) ==
    IF ~(Live(s) /\ StartsWith(line, "ROOT")) THEN s
    ELSE IF s.root # None
    THEN [s EXCEPT !.my_parent = TinyDAG(Str(s.root), None)]
    ELSE LET node == TinyDAG(RootName(line), s.my_parent)
         IN  [s EXCEPT !.my_parent = node, !.root = node, !.rootPath = full_path(node)]

\* str(jnt) of the token list a JOINT line leaves in jnt
ListRepr(toks) == "['" \o JoinWith(toks, "', '") \o "']"

\* lines 121-124
JointCheck(s, line) ==
    IF ~(Live(s) /\ Contains(line, "JOINT")) THEN s
    ELSE LET toks == Split(line)
             t == [s EXCEPT !.jnt = [bound |-> TRUE, name |-> ListRepr(toks)]]
         IN  IF Len(toks) < 2 THEN Fail(t, "IndexError")
             ELSE [t EXCEPT !.my_parent = TinyDAG(toks[2], s.my_parent)]

\* lines 126-128
EndSiteCheck(s, line) ==
    IF ~(Live(s) /\ ContainsEndSite(line)) THEN s
    ELSE [s EXCEPT !.safe_close = TRUE]

\* BraceCheck without the continue of line 134: the End Site's brace ascends too
BraceCheck_AlwaysAscends(s, line) ==
    IF ~(Live(s) /\ Contains(line, "}")) THEN s
    ELSE IF s.my_parent = None THEN [s EXCEPT !.safe_close = FALSE]
    ELSE LET t == [s EXCEPT !.my_parent = Parent(s.my_parent), !.safe_close = FALSE]
         IN  IF t.my_parent # None THEN McSelect(t, full_path(t.my_parent)) ELSE t

\* BraceCheck without the two tests of lines 137 and 139
BraceCheck_Unguarded(s, line) ==
    IF ~(Live(s) /\ Contains(line, "}")) THEN s
    ELSE IF s.safe_close THEN [s EXCEPT !.safe_close = FALSE, !.skip = TRUE]
    ELSE IF s.my_parent = None THEN Fail(s, "AttributeError")
    ELSE LET t == [s EXCEPT !.my_parent = Parent(s.my_parent)]
         IN  IF t.my_parent = None THEN Fail(t, "AttributeError")
             ELSE McSelect(t, full_path(t.my_parent))

\* BraceCheck with the End Site's brace ignored but the line's checks continued
BraceCheck_NoContinue(s, line) ==
    IF ~(Live(s) /\ Contains(line, "}")) THEN s
    ELSE IF s.safe_close THEN [s EXCEPT !.safe_close = FALSE]
    ELSE IF s.my_parent = None THEN s
    ELSE LET t == [s EXCEPT !.my_parent = Parent(s.my_parent)]
         IN  IF t.my_parent # None THEN McSelect(t, full_path(t.my_parent)) ELSE t

\* lines 130-140
BraceCheck(s, line) ==
    IF ~(Live(s) /\ Contains(line, "}")) THEN s
    ELSE IF s.safe_close THEN [s EXCEPT !.safe_close = FALSE, !.skip = TRUE]
    ELSE IF s.my_parent = None THEN s
    ELSE LET t == [s EXCEPT !.my_parent = Parent(s.my_parent)]
         IN  IF t.my_parent # None THEN McSelect(t, full_path(t.my_parent)) ELSE t

\* AxisString without the reversal of line 146
AxisString_NotReversed(chan) ==
    LET last == SubSeq(chan, IF Len(chan) > 3 THEN Len(chan) - 2 ELSE 1, Len(chan))
    IN  JoinWith([i \in 1..Len(last) |-> StripRotation(last[i])], "")

\* ''.join(axis) of lines 145-146: the last three tokens, 'rotation' removed, reversed
AxisString(chan) ==
    LET last == SubSeq(chan, IF Len(chan) > 3 THEN Len(chan) - 2 ELSE 1, Len(chan))
        rev == [i \in 1..Len(last) |-> StripRotation(last[Len(last) + 1 - i])]
    IN  JoinWith(rev, "")

InRotationOrders(axis) == \E i \in 1..Len(rotation_orders) : rotation_orders[i] = axis

\* rotation_orders.index(axis)
RotationOrderIndex(axis) ==
    (CHOOSE i \in 1..Len(rotation_orders) : rotation_orders[i] = axis) - 1

\* Binding with the channel tokens taken from the last to the first
Binding_Reversed(s, chan, i) ==
    full_path(s.my_parent) \o "." \o translationDict[chan[Len(chan) + 1 - i]]

\* the binding line 151 appends for the i-th channel token (i from 1)
Binding(s, chan, i) == full_path(s.my_parent) \o "." \o translationDict[chan[2 + i]]

\* why the i-th pass of the loop of lines 150-151 raises, "" when it does not
AppendError(s, chan, i) ==
    IF s.my_parent = None THEN "AttributeError"
    ELSE IF 2 + i > Len(chan) THEN "IndexError"
    ELSE IF chan[2 + i] \notin DOMAIN translationDict THEN "KeyError"
    ELSE ""

\* ChannelsCheck with the rotation order looked up after the bindings are appended
ChannelsCheck_LateLookup(s, line) ==
    IF ~(Live(s) /\ Contains(line, "CHANNELS")) THEN s
    ELSE LET chan == Split(line)
             axis == AxisString(chan)
             n == NumberOf(chan[2])
             bad == {i \in 1..n : AppendError(s, chan, i) # ""}
             done == IF bad = {} THEN n ELSE (CHOOSE i \in bad : \A j \in bad : i <= j) - 1
             a == [s EXCEPT !.channels = @ \o [i \in 1..done |-> Binding(s, chan, i)]]
             t == [a EXCEPT !.rot_order = RotationOrderIndex(axis)]
         IN  IF Len(chan) < 2 THEN Fail(s, "IndexError")
             ELSE IF ~IsNumber(chan[2]) THEN Fail(s, "ValueError")
             ELSE IF bad # {} THEN Fail(a, AppendError(s, chan, done + 1))
             ELSE IF ~InRotationOrders(axis) THEN Fail(a, "ValueError")
             ELSE IF ~s.jnt.bound THEN Fail(t, "NameError")
             ELSE McSetRotateOrder(t, s.jnt.name, t.rot_order)

\* lines 142-152
ChannelsCheck(s, line) ==
    IF ~(Live(s) /\ Contains(line, "CHANNELS")) THEN s
    ELSE LET chan == Split(line)
             axis == AxisString(chan)
             n == NumberOf(chan[2])
             bad == {i \in 1..n : AppendError(s, chan, i) # ""}
             done == IF bad = {} THEN n ELSE (CHOOSE i \in bad : \A j \in bad : i <= j) - 1
             t == [s EXCEPT !.rot_order = RotationOrderIndex(axis),
                            !.channels = @ \o [i \in 1..done |-> Binding(s, chan, i)]]
         IN  IF ~InRotationOrders(axis) THEN Fail(s, "ValueError")
             ELSE IF Len(chan) < 2 THEN Fail(s, "IndexError")
             ELSE IF ~IsNumber(chan[2]) THEN Fail(s, "ValueError")
             ELSE IF bad # {} THEN Fail(t, AppendError(s, chan, done + 1))
             ELSE IF ~s.jnt.bound THEN Fail(t, "NameError")
             ELSE McSetRotateOrder(t, s.jnt.name, t.rot_order)

\* lines 154-170
OffsetCheck(s, line) ==
    IF ~(Live(s) /\ Contains(line, "OFFSET")) THEN s
    ELSE LET offset == Split(line)
             jnt_name == IF s.safe_close THEN Str(s.my_parent) \o "_tip"
                         ELSE Str(s.my_parent)
             made == McJoint(s, jnt_name)
             t == IF objExists(s.nodes, full_path(s.my_parent))
                  THEN [s EXCEPT !.jnt = [bound |-> TRUE, name |-> full_path(s.my_parent)]]
                  ELSE [made EXCEPT !.jnt = [bound |-> TRUE,
                                             name |-> ShortName(made.nodes, NewJoint(s, jnt_name))]]
             args == Tail(offset)
         IN  IF s.my_parent = None THEN Fail(s, "AttributeError")
             ELSE IF \E i \in 1..Len(args) : ~IsNumber(args[i]) THEN Fail(t, "ValueError")
             ELSE McSetTranslate(t, t.jnt.name, [i \in 1..Len(args) |-> NumberOf(args[i])])

\* lines 173-175
MotionCheck(s, line) ==
    IF ~(Live(s) /\ Contains(line, "MOTION")) THEN s
    ELSE [s EXCEPT !.motion = TRUE]

\* why the token at position i (from 1) of a data line raises before
\* mc.setKeyframe is called, "" when it does not
TokenError(s, toks, i) ==
    IF i > Len(s.channels) THEN "IndexError"
    ELSE IF ~IsNumber(toks[i]) THEN "ValueError"
    ELSE ""

\* SetKeyframes with the table indexed one entry too far
RECURSIVE SetKeyframes_Shifted(_, _, _)
SetKeyframes_Shifted(s, toks, i) ==
    IF s.err # "" \/ i > Len(toks) THEN s
    ELSE IF TokenError(s, toks, i) # "" THEN Fail(s, TokenError(s, toks, i))
    ELSE SetKeyframes_Shifted(
            McSetKeyframe(s, s.channels[(i % Len(s.channels)) + 1], s.frame,
                          NumberOf(toks[i])),
            toks, i + 1)

\* lines 183-186 from position i on
RECURSIVE SetKeyframes(_, _, _)
SetKeyframes(s, toks, i) ==
    IF s.err # "" \/ i > Len(toks) THEN s
    ELSE IF TokenError(s, toks, i) # "" THEN Fail(s, TokenError(s, toks, i))
    ELSE SetKeyframes(McSetKeyframe(s, s.channels[i], s.frame, NumberOf(toks[i])),
                      toks, i + 1)

\* the keyframes of a data line, lines 181-186
DataLineKeys(s, line) == SetKeyframes(s, Split(line), 1)

\* MotionLine with the increment of line 188 outside the test of line 180
MotionLine_CountsHeaders(s, line) ==
    LET t == IF Contains(line, "Frame") THEN s ELSE DataLineKeys(s, line)
    IN  IF t.err # "" THEN t ELSE [t EXCEPT !.frame = @ + 1]

\* MotionLine with the increment of line 188 made before the line's keyframes
MotionLine_CountsFirst(s, line) ==
    IF Contains(line, "Frame") THEN s
    ELSE [DataLineKeys(s, line) EXCEPT !.frame = s.frame + 1]

\* lines 180-188
MotionLine(s, line) ==
    IF Contains(line, "Frame") THEN s
    ELSE LET t == DataLineKeys(s, line)
         IN  IF t.err # "" THEN t ELSE [t EXCEPT !.frame = @ + 1]

\* LineStep without the test of line 109: the hierarchy checks see every line
LineStep_NoSectionTest(s, line) ==
    LET t == MotionCheck(OffsetCheck(ChannelsCheck(BraceCheck(EndSiteCheck(
                JointCheck(RootCheck(s, line), line), line), line), line), line), line)
    IN  IF ~s.motion \/ t.err # "" THEN t ELSE MotionLine(t, line)

\* lines 107-188, one pass of the for loop
LineStep(s, line) ==
    IF ~s.motion
    THEN MotionCheck(OffsetCheck(ChannelsCheck(BraceCheck(EndSiteCheck(
            JointCheck(RootCheck(s, line), line), line), line), line), line), line)
    ELSE MotionLine(s, line)

\* ------------------------------------------------------------------ the session
NoData == [isNone |-> TRUE, lines |-> <<>>]
Lines(ls) == [isNone |-> FALSE, lines |-> ls]

Unbound == [bound |-> FALSE, name |-> ""]

\* the name readFile asks for its group (line 97); the modelled paths are
\* bare file names, which os.path.basename returns as they are
GroupName(path) == "_mocap_" \o path \o "_grp"

\* the state a readFile step starts from
Cur ==
    [my_parent |-> my_parent, safe_close |-> safe_close, motion |-> motion,
     frame |-> frame, rot_order |-> rot_order, jnt |-> jnt, channels |-> _channels,
     root |-> _root_node, rootPath |-> _root_node_full_path,
     nodes |-> nodes, sel |-> sel, val |-> val, rotateOrder |-> rotateOrder,
     keys |-> keys, log |-> log,
     err |-> "", skip |-> FALSE, ln |-> idx, pass |-> pass, pick |-> None]

\* the state a readFile step leaves
Commit(s) ==
    /\ my_parent' = s.my_parent
    /\ safe_close' = s.safe_close
    /\ motion' = s.motion
    /\ frame' = s.frame
    /\ rot_order' = s.rot_order
    /\ jnt' = s.jnt
    /\ _channels' = s.channels
    /\ _root_node' = s.root
    /\ _root_node_full_path' = s.rootPath
    /\ nodes' = s.nodes
    /\ sel' = s.sel
    /\ val' = s.val
    /\ rotateOrder' = s.rotateOrder
    /\ keys' = s.keys
    /\ log' = s.log
    /\ err' = s.err

\* lines 93-101: the first import creates the scaled group
FirstImport(s, path) ==
    LET g == McGroup(s, GroupName(path))
        grp == ShortName(g.nodes, <<NewName(s.nodes, None, GroupName(path))>>)
        t == McSetScale(g, grp)
    IN  IF t.err # "" THEN t ELSE [t EXCEPT !.my_parent = TinyDAG(grp, None)]

\* lines 102-105: a re-import rescales the group and clears the animation;
\* self.root_node.split("|")[0] is the obj of the root's ultimate ancestor
ReImport(s) ==
    LET t == McSetScale(s, s.root[1])
    IN  IF t.err # "" THEN t
        ELSE _clear_animation([t EXCEPT !.my_parent = TinyDAG(Str(s.root), None)])

\* Prologue with the clear-animation pass of line 105 made on a first import too
Prologue_AlwaysClears(s, path, d) ==
    LET s1 == [s EXCEPT !.safe_close = FALSE, !.motion = FALSE, !.channels = <<>>,
                        !.frame = 0, !.rot_order = 0 - 1, !.jnt = Unbound,
                        !.my_parent = None]
        g == FirstImport(s1, path)
        s2 == IF s.root # None THEN ReImport(s1)
              ELSE IF g.err # "" THEN g
              ELSE _clear_animation(g)
    IN  IF s2.err = "" /\ d.isNone THEN Fail(s2, "TypeError") ELSE s2

\* Prologue without the clear of line 89
Prologue_KeepsChannels(s, path, d) ==
    LET s1 == [s EXCEPT !.safe_close = FALSE, !.motion = FALSE,
                        !.frame = 0, !.rot_order = 0 - 1, !.jnt = Unbound,
                        !.my_parent = None]
        s2 == IF s.root = None THEN FirstImport(s1, path) ELSE ReImport(s1)
    IN  IF s2.err = "" /\ d.isNone THEN Fail(s2, "TypeError") ELSE s2

\* lines 85-105, then line 107 on self.data = d; rot_order = str() is -1
Prologue(s, path, d) ==
    LET s1 == [s EXCEPT !.safe_close = FALSE, !.motion = FALSE, !.channels = <<>>,
                        !.frame = 0, !.rot_order = 0 - 1, !.jnt = Unbound,
                        !.my_parent = None]
        s2 == IF s.root = None THEN FirstImport(s1, path) ELSE ReImport(s1)
    IN  IF s2.err = "" /\ d.isNone THEN Fail(s2, "TypeError") ELSE s2

Raised(init) == IF init THEN "dead" ELSE "failed"

\* readFile from its entry to the head of the for loop
Enter(path, d, init) ==
    LET s == Prologue([Cur EXCEPT !.pass = pass + 1, !.ln = 0], path, d)
    IN  /\ Commit(s)
        /\ pass' = pass + 1
        /\ inInit' = init
        /\ data' = d
        /\ idx' = 1
        /\ pc' = IF s.err = "" THEN "loop" ELSE Raised(init)
        /\ hist' = Append(hist, [lines |-> d.lines, fresh |-> _root_node = None,
                                 motionAt |-> 0, done |-> FALSE, nodes |-> {},
                                 keys |-> {}])

\* a call that raises before readFile is entered
Raise(e, d, init) ==
    /\ err' = e
    /\ data' = d
    /\ pc' = Raised(init)
    /\ inInit' = init
    /\ UNCHANGED <<pass, _channels, _root_node, _root_node_full_path, safe_close,
                   motion, frame, rot_order, my_parent, jnt, idx, nodes, sel, val,
                   rotateOrder, keys, log, hist>>

\* getData without the test of line 75
getData_NoFormatTest(path, fp, init) ==
    IF path \notin DOMAIN Disk THEN Raise("FileNotFoundError", data, init)
    ELSE IF Disk[path] = <<>> THEN Raise("IndexError", Lines(<<>>), init)
    ELSE Enter(fp, Lines(Disk[path]), init)

\* getData, lines 72-79
getData(path, fp, init) ==
    IF path \notin DOMAIN Disk THEN Raise("FileNotFoundError", data, init)
    ELSE IF Disk[path] = <<>> THEN Raise("IndexError", Lines(<<>>), init)
    ELSE IF ~StartsWith(Disk[path][1], "HIERARCHY") THEN Raise("InvalidFormat", NoData, init)
    ELSE Enter(fp, Lines(Disk[path]), init)

Init ==
    /\ pc = "new"
    /\ err = ""
    /\ calls = 0
    /\ pass = 0
    /\ inInit = FALSE
    /\ file_path = ""
    /\ data = NoData
    /\ _channels = <<>>
    /\ _root_node = None
    /\ _root_node_full_path = "None"
    /\ safe_close = FALSE
    /\ motion = FALSE
    /\ frame = 0
    /\ rot_order = 0 - 1
    /\ my_parent = None
    /\ jnt = Unbound
    /\ idx = 1
    /\ nodes = {}
    /\ sel = {}
    /\ val = <<>>
    /\ rotateOrder = <<>>
    /\ keys = {}
    /\ log = <<>>
    /\ call = [op |-> "none", path |-> "", logLen |-> 0, pass |-> 0]
    /\ hist = <<>>

\* ImportBVH(path, scale), lines 56-66
Construct(path) ==
    /\ pc = "new"
    /\ calls' = calls + 1
    /\ call' = [op |-> "init", path |-> path, logLen |-> Len(log), pass |-> pass]
    /\ IF path \notin DOMAIN Disk
       THEN Raise("FileNotFound", data, TRUE) /\ UNCHANGED file_path
       ELSE file_path' = path /\ getData(path, path, TRUE)

\* a later session.getData(path, scale)
GetData(path) ==
    /\ pc \in {"idle", "failed"}
    /\ calls < MaxCalls
    /\ calls' = calls + 1
    /\ call' = [op |-> "getData", path |-> path, logLen |-> Len(log), pass |-> pass]
    /\ UNCHANGED file_path
    /\ getData(path, file_path, FALSE)

\* a later session.readFile()
ReadFile ==
    /\ pc \in {"idle", "failed"}
    /\ calls < MaxCalls
    /\ calls' = calls + 1
    /\ call' = [op |-> "readFile", path |-> "", logLen |-> Len(log), pass |-> pass]
    /\ UNCHANGED file_path
    /\ Enter(file_path, data, FALSE)

\* one pass of the for loop of readFile
Line ==
    /\ pc = "loop"
    /\ idx <= Len(data.lines)
    /\ \E pick \in (IF Cardinality(sel) > 1 /\ Contains(data.lines[idx], "OFFSET")
                     THEN sel ELSE {None}) :
        LET s == LineStep([Cur EXCEPT !.pick = pick], data.lines[idx])
        IN  /\ Commit(s)
            /\ idx' = IF s.err = "" THEN idx + 1 ELSE idx
            /\ pc' = IF s.err = "" THEN "loop" ELSE Raised(inInit)
            /\ hist' = IF s.motion /\ ~motion
                       THEN [hist EXCEPT ![pass] = [@ EXCEPT !.motionAt = idx]]
                       ELSE hist
    /\ UNCHANGED <<calls, pass, inInit, file_path, data, call>>

\* the for loop ends and readFile returns
Finish ==
    /\ pc = "loop"
    /\ idx > Len(data.lines)
    /\ pc' = "idle"
    /\ hist' = [hist EXCEPT ![pass] = [@ EXCEPT !.done = TRUE, !.nodes = nodes,
                                                 !.keys = keys]]
    /\ UNCHANGED <<err, calls, pass, inInit, file_path, data, _channels, _root_node,
                   _root_node_full_path, safe_close, motion, frame, rot_order,
                   my_parent, jnt, idx, nodes, sel, val, rotateOrder, keys, log, call>>

Next ==
    \/ \E path \in Paths : Construct(path)
    \/ \E path \in ReloadPaths : GetData(path)
    \/ ReadFile
    \/ Line
    \/ Finish

Spec == Init /\ [][Next]_vars

\* ------------------------------------------------------------------ properties
\* What the properties read of the history.
PassLines(p) == hist[p].lines

\* the last line of pass p that the hierarchy parser saw
HierarchyEnd(p) == IF hist[p].motionAt = 0 THEN Len(PassLines(p)) ELSE hist[p].motionAt

IsChannelsLine(line) == Contains(line, "CHANNELS")

\* a data line of the motion section: one that is no header line
IsDataLine(line) == ~Contains(line, "Frame")

\* the inputs in the format of section 6 of the specification
FormatPaths == ValidPaths \cup {"noframes", "chanfirstroot", "chanfirstjoint"}
FormatInputs == {Disk[p] : p \in FormatPaths}

\* the sum of the declared counts n of the CHANNELS lines among lines[1..upto]
RECURSIVE SumN(_, _)
SumN(lines, upto) ==
    IF upto = 0 THEN 0
    ELSE SumN(lines, upto - 1)
         + (IF IsChannelsLine(lines[upto]) THEN NumberOf(lines[upto][2]) ELSE 0)

KindOf(tok) ==
    CASE tok = "Xposition" -> "translateX"
      [] tok = "Yposition" -> "translateY"
      [] tok = "Zposition" -> "translateZ"
      [] tok = "Xrotation" -> "rotateX"
      [] tok = "Yrotation" -> "rotateY"
      [] tok = "Zrotation" -> "rotateZ"

\* The bindings a hierarchy section declares, line by line: the current node is
\* top after the ROOT line, a JOINT line descends, a closing brace ascends unless
\* it closes an End Site, and a CHANNELS line binds its n tokens, in order, to
\* the current node's path.
RECURSIVE DeclaredBindings(_, _, _, _, _, _)
DeclaredBindings(lines, k, upto, cur, inEnd, top) ==
    IF k > upto THEN <<>>
    ELSE LET line == lines[k]
             cur1 == IF StartsWith(line, "ROOT") THEN top
                     ELSE IF Contains(line, "JOINT") THEN Append(cur, line[2])
                     ELSE IF Contains(line, "}") /\ ~inEnd THEN Parent(cur)
                     ELSE cur
             inEnd1 == IF ContainsEndSite(line) THEN TRUE
                       ELSE IF Contains(line, "}") THEN FALSE
                       ELSE inEnd
             here == IF IsChannelsLine(line)
                     THEN [i \in 1..NumberOf(line[2]) |->
                              JoinWith(cur1, "|") \o "." \o KindOf(line[2 + i])]
                     ELSE <<>>
         IN  here \o DeclaredBindings(lines, k + 1, upto, cur1, inEnd1, top)

\* the current node after the ROOT line of the running pass
RootChain == IF hist[pass].fresh THEN _root_node ELSE <<Str(_root_node)>>

\* C1: for an input in the section 6 format, once readFile has finished the
\* hierarchy section the Channel Binding Table holds exactly the sum of the
\* declared counts n of the section's CHANNELS lines, and its entries are, in
\* line order and token order, the current node's full path with the attribute
\* kind of each token.
C1_BindingsMatchChannelsLines ==
    (pass >= 1 /\ motion /\ PassLines(pass) \in FormatInputs) =>
        /\ Len(_channels) = SumN(PassLines(pass), HierarchyEnd(pass))
        /\ _channels = DeclaredBindings(PassLines(pass), 1, HierarchyEnd(pass),
                                        None, FALSE, RootChain)

C1_Witness ==
    /\ pass = 1 /\ motion /\ pc = "loop"
    /\ PassLines(1) = Disk[ValidPath(3, 1)]
    /\ Len(_channels) = 15

\* the data lines of pass p among the motion lines before line k
DataLinesBefore(p, k) ==
    IF hist[p].motionAt = 0 THEN {}
    ELSE {j \in (hist[p].motionAt + 1)..(k - 1) : IsDataLine(PassLines(p)[j])}

KeyframeEntries == {i \in 1..Len(log) : log[i].op = "keyframe"}

\* C2: in every pass the frame counter is the number of data lines (motion
\* lines without 'Frame') ingested so far: 0 until the first, one more per data
\* line, unchanged by header lines, and the number of data lines when the pass
\* is over; each keyframe of a data line has for time the number of data lines
\* before that line.
C2_FrameCountsDataLines ==
    pass >= 1 =>
        /\ frame = Cardinality(DataLinesBefore(pass, idx))
        /\ \A p \in 1..pass :
              LET before == DataLinesBefore(p, Len(PassLines(p)) + 1)
              IN  \A i \in KeyframeEntries :
                      log[i].pass = p =>
                          log[i].time = Cardinality({j \in before : j < log[i].ln})

C2_Witness ==
    /\ pc = "idle" /\ pass = 1
    /\ PassLines(1) = Disk[ValidPath(2, 1)]
    /\ frame = MaxFrames
    /\ \E i \in KeyframeEntries : log[i].time = MaxFrames - 1

\* the log entries that line k of pass p made, in order
EntriesOf(p, k) ==
    LET made(e) == e.pass = p /\ e.ln = k
    IN  SelectSeq(log, made)

\* entry e is a setKeyframe call on binding b at time f with the value of tok
IsKeyframeOf(e, b, f, tok) ==
    /\ e.op = "keyframe"
    /\ <<e.node, e.attr>> \in ResolveAttr(nodes, b)
    /\ e.time = f
    /\ e.value = <<NumberOf(tok)>>

\* the data lines of the running pass that were ingested completely
IngestedDataLines ==
    IF hist[pass].motionAt = 0 THEN {}
    ELSE {k \in (hist[pass].motionAt + 1)..(idx - 1) : IsDataLine(PassLines(pass)[k])}

\* C3: every ingested data line made exactly one setKeyframe call per token
\* position i, in order, on Channel Binding Table entry i, at the line's frame,
\* with the value of token i, and no other call; so an input in the section 6
\* format ends with exactly one call per (frame, channel) pair.
C3_OneKeyframePerToken ==
    pass >= 1 =>
        /\ \A k \in IngestedDataLines :
              LET toks == Split(PassLines(pass)[k])
                  es == EntriesOf(pass, k)
                  f == Cardinality(DataLinesBefore(pass, k))
              IN  /\ Len(es) = Len(toks)
                  /\ \A i \in 1..Len(toks) :
                        /\ i <= Len(_channels)
                        /\ IsKeyframeOf(es[i], _channels[i], f, toks[i])
        /\ (pc = "idle" /\ PassLines(pass) \in FormatInputs) =>
              Cardinality({i \in KeyframeEntries : log[i].pass = pass})
                  = frame * Len(_channels)

C3_Witness ==
    /\ pc = "idle" /\ pass = 1
    /\ PassLines(1) = Disk[ValidPath(3, 1)]
    /\ Cardinality({i \in KeyframeEntries : log[i].pass = 1}) = MaxFrames * 15

\* the braces that lines[from..to] open, less those they close
RECURSIVE Depth(_, _, _)
Depth(lines, from, to) ==
    IF from > to THEN 0
    ELSE Depth(lines, from, to - 1)
         + (IF Contains(lines[to], "{") THEN 1 ELSE 0)
         - (IF Contains(lines[to], "}") THEN 1 ELSE 0)

IsBlockLine(line) == StartsWith(line, "ROOT") \/ Contains(line, "JOINT")

\* line k is the OFFSET line of an End Site block
IsEndSiteOffset(lines, k) ==
    /\ Contains(lines[k], "OFFSET")
    /\ \E e \in 1..(k - 1) :
          /\ ContainsEndSite(lines[e])
          /\ \A j \in (e + 1)..(k - 1) : ~Contains(lines[j], "}")

\* the ROOT or JOINT line whose block holds line k directly under it
EnclosingBlock(lines, k, levels) ==
    CHOOSE j \in 1..(k - 1) :
        /\ IsBlockLine(lines[j])
        /\ Depth(lines, j, k - 1) = levels
        /\ \A i \in (j + 1)..(k - 1) :
              IsBlockLine(lines[i]) => Depth(lines, i, k - 1) # levels

\* C4 (as claimed): on a first import the OFFSET line of every End Site block
\* nested in a joint J creates a new joint named J_tip whose translation is the
\* End Site's offset.
C4_EndSiteCreatesTip ==
    (pass = 1 /\ hist[1].fresh) =>
        \A k \in 1..(idx - 1) :
            (k <= HierarchyEnd(1) /\ IsEndSiteOffset(PassLines(1), k)) =>
                LET line == PassLines(1)[k]
                    J == PassLines(1)[EnclosingBlock(PassLines(1), k, 2)][2]
                IN  \E i \in 1..Len(log) :
                        /\ log[i].op = "joint" /\ log[i].pass = 1 /\ log[i].ln = k
                        /\ Str(log[i].node) = J \o "_tip"
                        /\ val[log[i].node]["translateX"] = NumberOf(line[2])
                        /\ val[log[i].node]["translateY"] = NumberOf(line[3])
                        /\ val[log[i].node]["translateZ"] = NumberOf(line[4])

\* the second pass of the session re-imports the content its first pass imported
IsReimport ==
    /\ pass >= 2
    /\ hist[1].fresh /\ hist[1].done /\ ~hist[2].fresh
    /\ PassLines(2) = PassLines(1)

RotationsAreZero == \A n \in nodes : \A i \in 1..3 : val[n][rot_attrs[i]] = 0

\* C5: when the second readFile of a session parses the content its first one
\* imported, it has removed every keyframe and set every rotation to 0 before
\* its first setKeyframe call, it creates no group and no joint, and it ends
\* with the nodes and the keyframes (node, attribute, time, value) the first
\* import ended with.
C5_ReimportIdempotent ==
    IsReimport =>
        /\ \A i \in KeyframeEntries :
              log[i].pass = 2 =>
                  \E c \in 1..(i - 1) : log[c].op = "clear" /\ log[c].pass = 2
        /\ (pass = 2 /\ pc = "loop"
                /\ \A i \in KeyframeEntries : log[i].pass # 2) =>
              keys = {} /\ RotationsAreZero
        /\ \A i \in 1..Len(log) :
              log[i].pass = 2 => log[i].op \notin {"group", "joint"}
        /\ hist[2].done => hist[2].keys = hist[1].keys /\ hist[2].nodes = hist[1].nodes

C5_Witness ==
    /\ IsReimport /\ hist[2].done
    /\ PassLines(1) = Disk[ValidPath(3, 1)]
    /\ Cardinality(hist[2].keys) = MaxFrames * 15

\* the path has a file whose first line starts with HIERARCHY
Acceptable(path) ==
    /\ path \in DOMAIN Disk
    /\ Disk[path] # <<>>
    /\ StartsWith(Disk[path][1], "HIERARCHY")

RECURSIVE FirstNonEmpty(_)
FirstNonEmpty(lines) ==
    IF lines = <<>> THEN <<>>
    ELSE IF lines[1] # <<>> THEN lines[1]
    ELSE FirstNonEmpty(Tail(lines))

\* the last call was the constructor or getData, and no step followed a raise
AfterLoad == call.op \in {"init", "getData"} /\ pc # "new"

\* the last call parsed the file at its path
Parsed == pass = call.pass + 1 /\ PassLines(pass) = Disk[call.path]

\* the last call raised e before it made any call to the scene
RaisedBeforeScene(es) ==
    /\ pc \in {"dead", "failed"}
    /\ err \in es
    /\ pass = call.pass
    /\ Len(log) = call.logLen

\* C6 (as claimed): a file that exists and whose first non-empty line starts
\* with HIERARCHY is accepted and parsed; any other fails with FileNotFound or
\* InvalidFormat before any scene operation.
C6_FirstNonEmptyLineDecides ==
    AfterLoad =>
        IF call.path \in DOMAIN Disk
           /\ StartsWith(FirstNonEmpty(Disk[call.path]), "HIERARCHY")
        THEN Parsed
        ELSE RaisedBeforeScene({"FileNotFound", "FileNotFoundError", "InvalidFormat"})

\* C6 (amended): a file that exists and whose first line starts with HIERARCHY
\* is accepted and parsed; any other makes the constructor or getData raise
\* before any scene operation: FileNotFound for a missing path, InvalidFormat
\* for a first line that does not start with HIERARCHY, an index failure for a
\* file without lines.
C6_FirstLineDecides ==
    AfterLoad =>
        IF Acceptable(call.path) THEN Parsed
        ELSE IF call.path \notin DOMAIN Disk
        THEN RaisedBeforeScene({"FileNotFound", "FileNotFoundError"})
        ELSE IF Disk[call.path] = <<>> THEN RaisedBeforeScene({"IndexError"})
        ELSE RaisedBeforeScene({"InvalidFormat"})

C6_Witness ==
    /\ AfterLoad /\ call.op = "getData" /\ call.path = "blank1"
    /\ err = "InvalidFormat" /\ Len(log) > 0 /\ Len(log) = call.logLen

\* the last three tokens of a CHANNELS line
LastThree(line) == SubSeq(line, Len(line) - 2, Len(line))

\* the last three tokens are the three rotation channels in some order
EndsInRotations(line) ==
    /\ Len(line) >= 3
    /\ {LastThree(line)[i] : i \in 1..3} = RotationTokens

AxisOf(tok) ==
    CASE tok = "Xrotation" -> "X"
      [] tok = "Yrotation" -> "Y"
      [] tok = "Zrotation" -> "Z"

\* the ordinal of the axis letters a, b, c: XYZ=0, YZX=1, ZXY=2, XZY=3, YXZ=4, ZYX=5
Ordinal(a, b, c) ==
    CASE <<a, b, c>> = <<"X", "Y", "Z">> -> 0
      [] <<a, b, c>> = <<"Y", "Z", "X">> -> 1
      [] <<a, b, c>> = <<"Z", "X", "Y">> -> 2
      [] <<a, b, c>> = <<"X", "Z", "Y">> -> 3
      [] <<a, b, c>> = <<"Y", "X", "Z">> -> 4
      [] <<a, b, c>> = <<"Z", "Y", "X">> -> 5

\* the code of the last three tokens taken in reverse order
ReversedOrdinal(line) ==
    Ordinal(AxisOf(line[Len(line)]), AxisOf(line[Len(line) - 1]),
            AxisOf(line[Len(line) - 2]))

\* the lines of the running pass that the hierarchy parser has processed
ParsedHierarchyLines == 1..(IF idx - 1 < HierarchyEnd(pass) THEN idx - 1 ELSE HierarchyEnd(pass))

\* C7: every CHANNELS line that ends in a permutation of Xrotation, Yrotation,
\* Zrotation has one rotation order applied, the ordinal of the axis letters of
\* those three tokens in reverse order, which is also the rot_order readFile
\* holds after the line; a line ending in Zrotation Xrotation Yrotation gets 4.
C7_RotationOrderIsReversedOrdinal ==
    pass >= 1 =>
        /\ \A k \in ParsedHierarchyLines :
              LET line == PassLines(pass)[k]
                  es == EntriesOf(pass, k)
              IN  (IsChannelsLine(line) /\ EndsInRotations(line)) =>
                      /\ Len(es) = 1
                      /\ es[1].op = "rotateOrder"
                      /\ es[1].value = <<ReversedOrdinal(line)>>
                      /\ k = idx - 1 => rot_order = ReversedOrdinal(line)
                      /\ LastThree(line) = <<"Zrotation", "Xrotation", "Yrotation">>
                            => es[1].value = <<4>>

C7_Witness ==
    /\ pass = 1 /\ pc = "loop" /\ idx >= 2 /\ ~motion
    /\ IsChannelsLine(PassLines(1)[idx - 1])
    /\ LastThree(PassLines(1)[idx - 1]) = <<"Zrotation", "Xrotation", "Yrotation">>
    /\ rot_order = 4
    /\ log[Len(log)].op = "rotateOrder" /\ log[Len(log)].value = <<4>>

\* readFile raised in the pass the last call started
RaisedInPass == pc \in {"dead", "failed"} /\ pass = call.pass + 1

\* the line readFile raised at is a data line with more tokens than bindings
RaisedAtLongDataLine ==
    /\ RaisedInPass /\ motion
    /\ IsDataLine(PassLines(pass)[idx])
    /\ Len(Split(PassLines(pass)[idx])) > Len(_channels)

\* C8: a data line with more tokens than the Channel Binding Table has entries
\* makes readFile raise an out-of-range failure at the first token beyond the
\* table: the tokens before it have their keyframes, in order, and they are the
\* last calls made; the frame counter is not incremented for the line; and
\* every keyframe call of the pass is still in the scene.
C8_LongDataLineRaises ==
    RaisedAtLongDataLine =>
        LET toks == Split(PassLines(pass)[idx])
            es == EntriesOf(pass, idx)
            f == Cardinality(DataLinesBefore(pass, idx))
        IN  /\ err = "IndexError"
            /\ frame = f
            /\ Len(es) = Len(_channels)
            /\ \A i \in 1..Len(es) : IsKeyframeOf(es[i], _channels[i], f, toks[i])
            /\ Len(log) > 0 => log[Len(log)].pass = pass /\ log[Len(log)].ln <= idx
            /\ \A i \in KeyframeEntries :
                  log[i].pass = pass =>
                      [node |-> log[i].node, attr |-> log[i].attr, time |-> log[i].time,
                       value |-> log[i].value[1]] \in keys

C8_Witness ==
    /\ RaisedAtLongDataLine /\ err = "IndexError"
    /\ frame = 1
    /\ Cardinality({i \in KeyframeEntries : log[i].pass = pass}) = 2 * Len(_channels)
    /\ Len(_channels) = 9

\* the derived axis string of a CHANNELS line is none of the six table entries
HasUnknownOrder(line) == IsChannelsLine(line) /\ ~EndsInRotations(line)

\* C9: a CHANNELS line whose derived axis string is not in the Rotation-Order
\* Table is never passed: readFile raises a lookup failure at it, applies no
\* rotation order for it and appends no binding for it.
C9_UnknownOrderRaises ==
    pass >= 1 =>
        /\ \A k \in ParsedHierarchyLines : ~HasUnknownOrder(PassLines(pass)[k])
        /\ (RaisedInPass /\ ~motion /\ idx <= Len(PassLines(pass))
                /\ HasUnknownOrder(PassLines(pass)[idx])) =>
              /\ err = "ValueError"
              /\ EntriesOf(pass, idx) = <<>>
              /\ Len(_channels) = SumN(PassLines(pass), idx - 1)

C9_Witness ==
    /\ pass = 1 /\ pc = "dead" /\ err = "ValueError" /\ ~motion
    /\ PassLines(1) = Disk["posonly"]
    /\ PassLines(1)[idx] = ChannelsLine(PosOrder)
    /\ Len(_channels) = 6

\* the bindings the CHANNELS lines among lines[1..upto] declare
MaxBindings(p, upto) == SumN(PassLines(p), IF upto < HierarchyEnd(p) THEN upto ELSE HierarchyEnd(p))

\* C10: the Channel Binding Table is built fresh by every readFile: it is empty
\* when the for loop starts, and at any time it holds only what the CHANNELS
\* lines of the running pass have appended, whatever earlier passes left,
\* completed or not.
C10_TableIsFresh ==
    pass >= 1 =>
        /\ idx = 1 => _channels = <<>>
        /\ Len(_channels) >= MaxBindings(pass, idx - 1)
        /\ Len(_channels) <= MaxBindings(pass, IF idx <= Len(PassLines(pass)) THEN idx ELSE idx - 1)
        /\ (pc \in {"loop", "idle"}) => Len(_channels) = MaxBindings(pass, idx - 1)

C10_Witness ==
    /\ pass = 3 /\ pc = "idle"
    /\ hist[1].done /\ ~hist[2].done /\ hist[2].motionAt # 0
    /\ Len(_channels) = 15

\* the identifiers of ids joined with '|', written from the ultimate ancestor on
RECURSIVE JoinedFromAncestor(_)
JoinedFromAncestor(ids) ==
    IF Len(ids) = 1 THEN ids[1]
    ELSE ids[1] \o "|" \o JoinedFromAncestor(Tail(ids))

\* the Hierarchy Path nodes a state holds, with all their ancestors
HeldNodes ==
    UNION {{SubSeq(n, 1, k) : k \in 1..Len(n)} : n \in {my_parent, _root_node}}

\* C11: for every Hierarchy Path node the session or readFile holds, and every
\* ancestor of it, full_path is the identifiers from the ultimate ancestor down
\* to the node joined with '|': the identifier alone without a parent,
\* root|joint1|joint2 three levels deep; the recorded full path of the root is
\* what full_path gives for it again.
C11_FullPathJoinsAncestors ==
    /\ \A n \in HeldNodes :
          /\ full_path(n) = JoinedFromAncestor(n)
          /\ Len(n) = 1 => full_path(n) = n[1]
          /\ Len(n) = 3 => full_path(n) = n[1] \o "|" \o n[2] \o "|" \o n[3]
          /\ Len(n) > 1 => full_path(n) = full_path(Parent(n)) \o "|" \o n[Len(n)]
    /\ _root_node # None => _root_node_full_path = full_path(_root_node)

C11_Witness ==
    /\ pass = 1 /\ pc = "loop"
    /\ my_parent = <<GroupName(ValidPath(3, 1)), "Hip", "A">>
    /\ full_path(my_parent) = "_mocap_v31_grp|Hip|A"
    /\ _root_node_full_path = "_mocap_v31_grp|Hip"

\* the running readFile is about to process a hierarchy line with a '}' that
\* starts no block
AtBraceLine ==
    /\ pc = "loop" /\ idx <= Len(data.lines) /\ ~motion
    /\ Contains(data.lines[idx], "}")
    /\ ~IsBlockLine(data.lines[idx])

\* the braces lines[1..k] open, less those they close
DepthAfter(lines, k) == Depth(lines, 1, k)

\* the block that line j starts is still open after line k: no line up to k
\* closes the brace that follows j
OpenAt(lines, j, k) ==
    \A i \in (j + 1)..k : DepthAfter(lines, i) - DepthAfter(lines, j - 1) >= 1

\* the names of the ROOT and JOINT blocks among lines[j..k] still open after line k
RECURSIVE OpenBlocks(_, _, _)
OpenBlocks(lines, j, k) ==
    IF j > k THEN <<>>
    ELSE (IF IsBlockLine(lines[j]) /\ OpenAt(lines, j, k) THEN <<lines[j][2]>> ELSE <<>>)
         \o OpenBlocks(lines, j + 1, k)

\* every line holds at most one brace, no brace closes what was not opened, and
\* the section closes all it opens
BraceBalanced(lines, upto) ==
    /\ \A k \in 1..upto :
          /\ Cardinality({i \in 1..Len(lines[k]) : lines[k][i] \in {"{", "}"}}) <= 1
          /\ DepthAfter(lines, k) >= 0
    /\ DepthAfter(lines, upto) = 0

\* the group the running pass created in its prologue
ScaleGroup == EntriesOf(pass, 0)[1].node

\* the running pass is a first import that has raised nothing
FirstImportRunning == pass >= 1 /\ hist[pass].fresh /\ pc \in {"loop", "idle"}

\* the current node is the chain of the open blocks under the scale group
CurrentNodeIsOpenChain ==
    (FirstImportRunning /\ BraceBalanced(PassLines(pass), HierarchyEnd(pass))) =>
        LET k == IF idx - 1 < HierarchyEnd(pass) THEN idx - 1 ELSE HierarchyEnd(pass)
        IN  /\ EntriesOf(pass, 0)[1].op = "group"
            /\ my_parent = ScaleGroup \o OpenBlocks(PassLines(pass), 1, k)

\* C12: a '}' line processed in the End-Site state clears the state and leaves
\* the current node; one processed outside it makes the current node its
\* parent.  So on a first import of a brace-balanced hierarchy the current node
\* is always the scale group followed by the blocks still open: the closing
\* brace of a JOINT block returns to the node that was current before the JOINT
\* line, and that of the ROOT block to the scale group.
C12_BraceAscendsUnlessEndSite ==
    [][/\ AtBraceLine =>
             IF safe_close \/ ContainsEndSite(data.lines[idx])
             THEN ~safe_close' /\ my_parent' = my_parent
             ELSE ~safe_close' /\ my_parent' = Parent(my_parent)
        /\ CurrentNodeIsOpenChain']_vars

C12_Witness ==
    /\ pass = 1 /\ pc = "loop" /\ ~motion /\ idx >= 2
    /\ PassLines(1) = Disk[ValidPath(3, 1)]
    /\ PassLines(1)[idx - 1] = <<"}">>
    /\ my_parent = <<GroupName(ValidPath(3, 1))>>
    /\ \E i \in 1..Len(log) : log[i].op = "select" /\ log[i].node = <<GroupName(ValidPath(3, 1)), "Hip">>

\* the running pass is a re-import that has just processed its ROOT line
ReimportAfterRootLine ==
    /\ pass >= 2 /\ ~hist[pass].fresh
    /\ pc = "loop" /\ ~motion /\ idx >= 2
    /\ StartsWith(PassLines(pass)[idx - 1], "ROOT")

\* C13 (as claimed): on a re-import the current node after the ROOT line has the
\* full path the first import recorded for the root, the recorded root is left
\* as it was, and the bindings the re-import appends are the full paths the
\* first import bound.
C13_ReimportUsesPersistedPath ==
    /\ ReimportAfterRootLine =>
          /\ full_path(my_parent) = _root_node_full_path
          /\ _root_node_full_path = full_path(_root_node)
    /\ (IsReimport /\ pass = 2 /\ pc = "idle") =>
          _channels = DeclaredBindings(PassLines(1), 1, HierarchyEnd(1), None, FALSE,
                                       _root_node)

ClearEntries == {i \in 1..Len(log) : log[i].op = "clear"}

\* a readFile before pass p ran to its end
SucceededBefore(p) == \E q \in 1..(p - 1) : hist[q].done

\* C14: the clear-animation pass runs only in the prologue of a readFile that
\* found a root on record, and a root is on record only when an earlier
\* readFile of the session ran to its end; whatever passes failed partway,
\* no readFile raises the missing-root failure of _clear_animation.
C14_ClearOnlyWithRoot ==
    /\ err # "Exception"
    /\ \A i \in ClearEntries :
          /\ log[i].ln = 0
          /\ ~hist[log[i].pass].fresh
          /\ SucceededBefore(log[i].pass)
    /\ \A p \in 1..pass : ~hist[p].fresh => SucceededBefore(p)
    /\ \A p \in 1..pass :
          Cardinality({i \in ClearEntries : log[i].pass = p}) <= 1

\* a clear-animation pass on a root that a readFile that failed partway recorded
C14_Witness ==
    /\ pass = 3 /\ pc = "loop"
    /\ hist[1].done /\ hist[2].fresh /\ ~hist[2].done /\ hist[2].motionAt # 0
    /\ \E i \in ClearEntries : log[i].pass = 3

\* the scene nodes at or under the root the session has on record
UnderRoot == {n \in nodes : Len(n) >= Len(_root_node)
                            /\ SubSeq(n, 1, Len(_root_node)) = _root_node}

IsRotation(a) == a \in {"rotateX", "rotateY", "rotateZ"}

\* a readFile is entered with a root on record and gets through its prologue
ClearStep ==
    /\ pc \in {"idle", "failed"} /\ _root_node # None
    /\ pass' = pass + 1 /\ pc' = "loop"

\* C15: the clear-animation pass removes every keyframe on the six transform
\* attributes of the root and of every node under it, and sets their three
\* rotations to 0; it leaves every translation value, every other node's
\* values, the node set with its parenting, the rotation orders and the
\* session's root as they were, and _clear_animation itself leaves the Channel
\* Binding Table as it finds it.
C15_ClearEffectAndFrame ==
    [][ClearStep =>
          /\ \E i \in (Len(log) + 1)..Len(log') : log'[i].op = "clear"
          /\ UnderRoot # {}
          /\ keys' = {k \in keys : k.node \notin UnderRoot}
          /\ \A n \in UnderRoot : \A a \in Attrs :
                val'[n][a] = IF IsRotation(a) THEN 0 ELSE val[n][a]
          /\ \A n \in nodes \ UnderRoot : val'[n] = val[n]
          /\ nodes' = nodes
          /\ rotateOrder' = rotateOrder
          /\ _root_node' = _root_node
          /\ _root_node_full_path' = _root_node_full_path
          /\ _clear_animation(Cur).channels = _channels]_vars

C15_Witness ==
    /\ pass = 2 /\ pc = "loop" /\ idx = 1
    /\ log[Len(log)].op = "clear"
    /\ hist[1].keys # {} /\ keys = {}
    /\ _channels = <<>>
    /\ \E n \in UnderRoot : val[n]["translateZ"] # 0 /\ val[n]["rotateZ"] = 0
    /\ \E n \in UnderRoot : rotateOrder[n] # 0

\* the scene calls and table appends of the hierarchy parser
IsHierarchyOp(op) == op \in {"joint", "translate", "rotateOrder", "select"}

\* in every pass the hierarchy parser's calls come before the first setKeyframe
HierarchyBeforeKeyframes ==
    \A i \in KeyframeEntries :
        \A j \in 1..Len(log) :
            (log[j].pass = log[i].pass /\ IsHierarchyOp(log[j].op)) => j < i

\* C16: once readFile has processed a line containing MOTION it stays in motion
\* ingestion for the rest of the pass: no later line, whatever keywords it
\* holds, changes the Channel Binding Table, the current node or the End-Site
\* flag, and every createJoint, setStaticTranslation and setRotationOrder call
\* of a pass comes before its first setKeyframe call.
C16_MotionNeverReturns ==
    [][/\ (pc = "loop" /\ motion) =>
             /\ motion'
             /\ _channels' = _channels
             /\ my_parent' = my_parent
             /\ safe_close' = safe_close
             /\ jnt' = jnt /\ rot_order' = rot_order
             /\ nodes' = nodes /\ rotateOrder' = rotateOrder
        /\ HierarchyBeforeKeyframes']_vars

\* a JOINT line met after MOTION raised and changed nothing of the parser's state
C16_Witness ==
    /\ pass = 1 /\ pc = "dead" /\ motion /\ err = "ValueError"
    /\ PassLines(1) = Disk["late"]
    /\ PassLines(1)[idx] = <<"JOINT", "Z">>
    /\ frame = MaxFrames
    /\ my_parent = <<GroupName("late")>>
    /\ Len(_channels) = 6

\* the scene nodes that the blocks open after line k of the running pass denote
CurrentJointAt(k) == Resolve(nodes, JoinWith(OpenBlocks(PassLines(pass), 1, k), "|"))

\* readFile raised at a CHANNELS line of the hierarchy section
RaisedAtChannelsLine ==
    /\ RaisedInPass /\ ~motion /\ idx <= Len(PassLines(pass))
    /\ IsChannelsLine(PassLines(pass)[idx])

\* C17 (as claimed): for an input in the section 6 format, with OFFSET and
\* CHANNELS in either order, every CHANNELS line applies its rotation order to
\* the scene node of the current Hierarchy Path node and to no other node.
C17_RotationOrderOnCurrentJoint ==
    (pass >= 1 /\ PassLines(pass) \in FormatInputs) =>
        /\ ~RaisedAtChannelsLine
        /\ \A k \in ParsedHierarchyLines :
              IsChannelsLine(PassLines(pass)[k]) =>
                  LET es == EntriesOf(pass, k)
                  IN  /\ Len(es) = 1
                      /\ es[1].op = "rotateOrder"
                      /\ CurrentJointAt(k) = {es[1].node}

\* the running readFile is about to process a hierarchy line and does not raise
HierarchyLineStep ==
    /\ pc = "loop" /\ idx <= Len(data.lines) /\ ~motion
    /\ pc' = "loop"

\* the step's line closes an End Site: it holds a '}' met in the End-Site state
ClosesEndSite ==
    /\ Contains(data.lines[idx], "}")
    /\ safe_close \/ ContainsEndSite(data.lines[idx])

\* the step made a scene call of kind op
Made(op) == \E i \in (Len(log) + 1)..Len(log') : log'[i].op = op

\* the effects of the checks that come before the test of the End-Site state
EarlyChecksActed ==
    LET line == data.lines[idx]
    IN  /\ (StartsWith(line, "ROOT") /\ _root_node = None) =>
              _root_node' = Append(my_parent, RootName(line))
        /\ (Contains(line, "JOINT") /\ ~Contains(line, "}")) =>
              my_parent' = Append(IF StartsWith(line, "ROOT") THEN _root_node' ELSE my_parent,
                                  line[2])
        /\ (ContainsEndSite(line) /\ ~Contains(line, "}")) => safe_close'
        /\ Contains(line, "}") => ~safe_close'
        /\ (Contains(line, "}") /\ ~ClosesEndSite /\ ~IsBlockLine(line)) =>
              my_parent' = Parent(my_parent)

\* C18 (as claimed): every condition a hierarchy line satisfies is acted on,
\* whatever other conditions the line satisfies and whatever the End-Site
\* state: a CHANNELS line gets its rotation order and bindings, an OFFSET line
\* its translation, a MOTION line starts motion ingestion.
C18_ChecksAreIndependent ==
    [][HierarchyLineStep =>
          LET line == data.lines[idx]
          IN  /\ EarlyChecksActed
              /\ Contains(line, "CHANNELS") =>
                    Made("rotateOrder") /\ Len(_channels') > Len(_channels)
              /\ Contains(line, "OFFSET") => Made("translate")
              /\ Contains(line, "MOTION") => motion']_vars

\* C18 (amended): the conditions ROOT, JOINT, End Site and '}' a hierarchy line
\* satisfies are acted on in that order whatever else the line holds; the
\* conditions CHANNELS, OFFSET and MOTION are acted on, in that order, unless
\* the line holds a '}' met in the End-Site state: that brace clears the state
\* and ends the processing of the line, so its CHANNELS, OFFSET and MOTION have
\* no effect.
C18_ChecksUntilEndSiteBrace ==
    [][HierarchyLineStep =>
          LET line == data.lines[idx]
          IN  /\ EarlyChecksActed
              /\ Contains(line, "CHANNELS") =>
                    /\ Made("rotateOrder") <=> ~ClosesEndSite
                    /\ Len(_channels') > Len(_channels) <=> ~ClosesEndSite
              /\ Contains(line, "OFFSET") => (Made("translate") <=> ~ClosesEndSite)
              /\ Contains(line, "MOTION") => (motion' <=> ~ClosesEndSite)
              /\ ClosesEndSite =>
                    /\ log' = log /\ _channels' = _channels /\ val' = val
                    /\ ~motion' /\ my_parent' = my_parent
              /\ \A i, j \in (Len(log) + 1)..Len(log') :
                    (log'[i].op = "select" /\ log'[j].op # "select") => i < j]_vars

\* the End Site's brace shared its line with MOTION: the state was cleared, the
\* current node kept, and the import ended without ingesting a frame
C18_Witness ==
    /\ pass = 1 /\ pc = "idle" /\ PassLines(1) = Disk["endmotion"]
    /\ ~motion /\ keys = {} /\ ~safe_close
    /\ my_parent = <<GroupName("endmotion"), "Hip">>

\* the running readFile is about to process a hierarchy line whose only
\* condition is a '}' met outside the End-Site state
AtAscendingBrace ==
    /\ AtBraceLine /\ ~ClosesEndSite
    /\ ~Contains(data.lines[idx], "CHANNELS")
    /\ ~Contains(data.lines[idx], "OFFSET")

\* C19: a '}' processed with no current node changes nothing, raises nothing
\* and makes no select call; a '}' that ascends to no node raises nothing and
\* makes no select call; a select call is made on an ascend only when the new
\* current node is a node, and then on that node's full path; so closing
\* braces beyond the opened blocks leave the parser at 'no node'.
C19_AscendStopsAtNoNode ==
    [][AtAscendingBrace =>
          /\ my_parent = None =>
                /\ my_parent' = None /\ err' = "" /\ pc' = "loop"
                /\ log' = log /\ sel' = sel
          /\ (my_parent # None /\ Parent(my_parent) = None) =>
                /\ my_parent' = None /\ err' = "" /\ pc' = "loop"
                /\ log' = log /\ sel' = sel
          /\ Made("select") =>
                /\ my_parent' # None /\ my_parent' = Parent(my_parent)
                /\ Len(log') = Len(log) + 1
                /\ sel' = Resolve(nodes, full_path(my_parent'))
          /\ (Parent(my_parent) # None /\ err' = "") => Made("select")]_vars

\* two closing braces beyond the ROOT block's: the first ascended from the group
\* to no node, the second was processed with no current node
C19_Witness ==
    /\ pass = 1 /\ pc = "loop" /\ ~motion /\ err = ""
    /\ PassLines(1) = Disk["unbalanced"]
    /\ idx >= 5
    /\ \A k \in (idx - 4)..(idx - 1) : PassLines(1)[k] = <<"}">>
    /\ my_parent = None
    /\ log[Len(log)].op = "select" /\ log[Len(log)].node = <<GroupName("unbalanced")>>

\* a first import has just finished its hierarchy section
FirstImportAtMotion ==
    /\ pass = 1 /\ hist[1].fresh /\ pc = "loop" /\ motion
    /\ idx = hist[1].motionAt + 1
    /\ PassLines(1) \in FormatInputs

\* C20 (as claimed): after the hierarchy section of a first import every ROOT
\* and JOINT node has for static translation the three values of the OFFSET
\* line of its own block; the OFFSET line of a nested End Site block leaves the
\* enclosing joint's translation alone.
C20_TranslationIsOwnOffset ==
    FirstImportAtMotion =>
        \A k \in 1..HierarchyEnd(1) :
            (Contains(PassLines(1)[k], "OFFSET") /\ ~IsEndSiteOffset(PassLines(1), k)) =>
                LET line == PassLines(1)[k]
                    n == ScaleGroup \o OpenBlocks(PassLines(1), 1, k)
                IN  /\ n \in nodes
                    /\ val[n]["translateX"] = NumberOf(line[2])
                    /\ val[n]["translateY"] = NumberOf(line[3])
                    /\ val[n]["translateZ"] = NumberOf(line[4])

====
